---- MODULE Spec2Model ----
(***************************************************************************)
(* Model of Topic (src/src/topic/topic.ts): the message cache, the         *)
(* optimistic publish pipeline (publishDraft / publishMessage /            *)
(* swapMessageId), message deletion (delMessages, delMessagesList), the    *)
(* read/recv watermarks (note) and the calls that end a subscription       *)
(* (leave, delSubscription).                                               *)
(*                                                                         *)
(* A message packet is an object shared by reference between the caller,   *)
(* the pipeline and the cache, so the cache is a sequence of packet        *)
(* identities and the packets' fields (seq, sending, failed, ...) are      *)
(* functions on those identities.  A write to pub.data.seq is seen by the  *)
(* cache entry at once.                                                    *)
(*                                                                         *)
(* CBuffer, AppSettings and Tinode are imported by topic.ts and are not    *)
(* part of it: the cache operations follow the specification's             *)
(* OrderedMessageCache, the Session's answers are chosen by the            *)
(* environment.  The methods of Topic whose bodies are empty in topic.ts   *)
(* (subscribe, resetSub, routeData, flushMessage, flushMessageRange) are   *)
(* modelled from the specification; methods with a body (getQueuedSeqId,   *)
(* swapMessageId, ...) are modelled as written.                            *)
(*                                                                         *)
(* One publish call per packet and one delMessages call are in progress    *)
(* at a time; calls on different packets interleave freely.                *)
(***************************************************************************)
EXTENDS Integers, Sequences, FiniteSets, TLC

\* ---------------------------------------------------------------- bounds
NumMsgs == 2          \* message packets the caller works with
MaxCalls == 3         \* publishDraft/publishMessage calls in a run
MaxConfirmed == 2     \* confirmed identifiers the Session hands out: 1..MaxConfirmed
MaxRangeId == 4       \* largest identifier a deletion range mentions
MaxRanges == 2        \* ranges per delMessages call
MaxDelId == 1         \* largest deletion id the Session returns
MaxNoteSeq == 2       \* largest seq passed to note
MaxNotes == 3         \* note calls in a run
MaxListLen == 3       \* ids per delMessagesList call

\* AppSettings.LOCAL_SEQ_ID, scaled: identifiers below it are confirmed space.
LOCAL_SEQ_ID == 4

Msgs == 1 .. NumMsgs

\* Identifiers the Session assigns: at least 1 and below the local range.
ConfirmedIds == { s \in 1 .. MaxConfirmed : s < LOCAL_SEQ_ID }
NoMsg == 0            \* payload of onData.next() called without an argument

\* The users a subscription record can exist for; tinode.getCurrentUserID().
Users == { "me", "peer" }
CurrentUser == "me"

VARIABLES
    subscribed,       \* Topic.subscribed
    messages,         \* Topic.messages: the cache, a sequence of packets
    seq,              \* pub.data.seq of each packet; 0 is "no seq" (falsy)
    sending,          \* pub.sending
    failed,           \* pub.failed
    cancelled,        \* pub.cancelled
    noForwarding,     \* pub.noForwarding
    maxSeq,           \* Topic.maxSeq
    maxDel,           \* Topic.maxDel
    pc,               \* where each packet's publish call stands
    outcome,          \* how the promise returned to the caller settled
    calls,            \* publishDraft/publishMessage calls made so far
    issued,           \* confirmed identifiers the Session has handed out
    delPc,            \* where the delMessages call stands
    delRanges,        \* the caller's array of ranges, sorted in place
    delSent,          \* the ranges passed to Session.delMessages
    delOutcome,       \* how the delMessages promise settled
    delId,            \* ctrl.params.del of the last delMessages continuation
    delList,          \* the ids passed to delMessagesList, while its call runs
    emitted,          \* payloads of the onData events of the last step
    users,            \* Topic.users: the user ids that have a record
    recv,             \* users[u].recv; 0 is "absent" (falsy)
    read,             \* users[u].read; 0 is "absent" (falsy)
    noteCalls,        \* note calls made so far
    noteSent,         \* {note} notifications handed to the Session so far
    noteResult,       \* how the last note call ended
    leavePc,          \* where the leave or delTopic call stands
    leaveOutcome,     \* how the leave or delTopic promise settled
    subPc,            \* the user whose delSubscription call is in flight
    subOutcome        \* how the delSubscription promise settled

vars == << subscribed, messages, seq, sending, failed, cancelled, noForwarding,
           maxSeq, maxDel, pc, outcome, calls, issued,
           delPc, delRanges, delSent, delOutcome, delId, delList, emitted,
           users, recv, read, noteCalls, noteSent, noteResult,
           leavePc, leaveOutcome, subPc, subOutcome >>

pubVars == << seq, sending, failed, cancelled, noForwarding, pc, outcome,
              calls, issued >>
delVars == << delPc, delRanges, delSent, delOutcome, delId, delList >>
regVars == << users, recv, read, noteCalls, noteSent, noteResult >>
ctlVars == << leavePc, leaveOutcome, subPc, subOutcome >>

\* ------------------------------------------------------- CBuffer (cache)
\* The comparator of the cache: a.seq - b.seq.
Compare(s, a, b) == s[a] - s[b]

\* CBuffer.find(elem): index of the entry the comparator calls equal to a
\* packet whose seq is v, 0 when there is none.
Find(buf, s, v) ==
    IF \E i \in 1 .. Len(buf) : s[buf[i]] = v
    THEN CHOOSE i \in 1 .. Len(buf) :
            /\ s[buf[i]] = v
            /\ \A j \in 1 .. (i - 1) : s[buf[j]] # v
    ELSE 0

\* CBuffer.put(elem) of a buffer built with unique = true: insert in
\* comparator order; an entry that compares equal is already there: no-op.
Put(buf, s, m) ==
    IF Find(buf, s, s[m]) # 0 THEN buf
    ELSE LET after == { i \in 1 .. Len(buf) : Compare(s, buf[i], m) > 0 }
             at == IF after = {} THEN Len(buf) + 1
                   ELSE CHOOSE i \in after : \A j \in after : i <= j
         IN  SubSeq(buf, 1, at - 1) \o << m >> \o SubSeq(buf, at, Len(buf))

\* CBuffer.delAt(idx): remove the entry at idx; no entry there: no-op.
DelAt(buf, idx) ==
    IF idx \in 1 .. Len(buf)
    THEN SubSeq(buf, 1, idx - 1) \o SubSeq(buf, idx + 1, Len(buf))
    ELSE buf

InCache(buf, m) == \E i \in 1 .. Len(buf) : buf[i] = m

\* ---------------------------------------------------------------- Init
Init ==
    /\ subscribed = FALSE
    /\ messages = << >>
    /\ seq = [m \in Msgs |-> 0]
    /\ sending = [m \in Msgs |-> FALSE]
    /\ failed = [m \in Msgs |-> FALSE]
    /\ cancelled = [m \in Msgs |-> FALSE]
    /\ noForwarding = [m \in Msgs |-> FALSE]
    /\ maxSeq = 0
    /\ maxDel = 0
    /\ pc = [m \in Msgs |-> "draft"]
    /\ outcome = [m \in Msgs |-> "none"]
    /\ calls = 0
    /\ issued = {}
    /\ delPc = "idle"
    /\ delRanges = << >>
    /\ delSent = << >>
    /\ delOutcome = "none"
    /\ delId = 0
    /\ delList = << >>
    /\ emitted = << >>
    /\ users = {}
    /\ recv = [u \in Users |-> 0]
    /\ read = [u \in Users |-> 0]
    /\ noteCalls = 0
    /\ noteSent = 0
    /\ noteResult = "none"
    /\ leavePc = "idle"
    /\ leaveOutcome = "none"
    /\ subPc = "idle"
    /\ subOutcome = "none"


\* ------------------------------------------------- subscription state
\* Topic.subscribe: the topic becomes live.
Subscribe ==
    /\ ~subscribed
    /\ subscribed' = TRUE
    /\ emitted' = << >>
    /\ UNCHANGED << messages, maxSeq, maxDel >>
    /\ UNCHANGED pubVars
    /\ UNCHANGED delVars
    /\ UNCHANGED regVars
    /\ UNCHANGED ctlVars

\* Topic.resetSub: the topic stops being live.
ResetSub ==
    /\ subscribed
    /\ subscribed' = FALSE
    /\ emitted' = << >>
    /\ UNCHANGED << messages, maxSeq, maxDel >>
    /\ UNCHANGED pubVars
    /\ UNCHANGED delVars
    /\ UNCHANGED regVars
    /\ UNCHANGED ctlVars

\* ------------------------------------------------------ publish pipeline
\* A packet can be handed to publishDraft/publishMessage when no call on it
\* is in progress.
Settled == { "draft", "confirmed", "failed", "discarded", "cancelled", "inactive" }

\* Topic.getQueuedSeqId.
GetQueuedSeqId == 0

\* Variant of SwapMessageId: every packet that carries the old seq is renumbered.
SwapMessageIdByValue(s, m, newSeqId) ==
    [k \in Msgs |-> IF s[k] = s[m] THEN newSeqId ELSE s[k]]

\* Topic.swapMessageId(pub, newSeqId): the packet's seq is overwritten; the
\* cache is not touched (the delAt/put block is commented out).
SwapMessageId(s, m, newSeqId) == [s EXCEPT ![m] = newSeqId]

\* Topic.routeData(pub): the maximum known seq follows the confirmed packet.
RouteData(mx, s) == IF s > mx THEN s ELSE mx

\* Variant of IsCancelled: the callback sends without looking at the flag.
IsCancelledIgnored(m) == FALSE

\* The test of the onFulfilled callback of publishDraft: pub.cancelled.
IsCancelled(m) == cancelled[m]

\* Variant of CacheOnReject: the catch block drops the entry, as the draft's
\* onRejected callback does.
CacheOnRejectDiscards(buf, s, m) == DelAt(buf, Find(buf, s, s[m]))

\* The cache after the catch block of publishMessage (it does not touch it).
CacheOnReject(buf, s, m) == buf

\* Topic.publishMessage(pub) up to the await: the inactive check, the flags
\* and the request to the Session.
PublishMessageBody(m) ==
    IF ~subscribed
    THEN /\ outcome' = [outcome EXCEPT ![m] = "rejectedInactive"]
         /\ pc' = [pc EXCEPT ![m] = "inactive"]
         /\ UNCHANGED << sending, failed >>
    ELSE /\ sending' = [sending EXCEPT ![m] = TRUE]
         /\ failed' = [failed EXCEPT ![m] = FALSE]
         /\ outcome' = [outcome EXCEPT ![m] = "pending"]
         /\ pc' = [pc EXCEPT ![m] = "sending"]

\* Topic.publishMessage(pub) called by the application.
PublishMessage(m) ==
    /\ pc[m] \in Settled
    /\ calls < MaxCalls
    /\ calls' = calls + 1
    /\ PublishMessageBody(m)
    /\ emitted' = << >>
    /\ UNCHANGED << subscribed, messages, seq, cancelled, noForwarding,
                    maxSeq, maxDel, issued >>
    /\ UNCHANGED delVars
    /\ UNCHANGED regVars
    /\ UNCHANGED ctlVars

\* Variant of AlreadyForwarded: every call takes the packet for a new one.
AlreadyForwardedNever(m) == FALSE

\* pub.noForwarding, the mark publishDraft leaves on a packet it has cached.
AlreadyForwarded(m) == noForwarding[m]

\* Topic.publishDraft(pub, prom), the synchronous part.
PublishDraft(m, withProm) ==
    /\ pc[m] \in Settled
    /\ calls < MaxCalls
    /\ calls' = calls + 1
    /\ IF ~withProm /\ ~subscribed
       THEN /\ outcome' = [outcome EXCEPT ![m] = "rejectedInactive"]
            /\ pc' = [pc EXCEPT ![m] = "inactive"]
            /\ emitted' = << >>
            /\ UNCHANGED << messages, seq, noForwarding >>
       ELSE /\ IF ~AlreadyForwarded(m)
               THEN /\ noForwarding' = [noForwarding EXCEPT ![m] = TRUE]
                    /\ seq' = [seq EXCEPT ![m] =
                                  IF seq[m] # 0 THEN seq[m] ELSE GetQueuedSeqId]
                    /\ messages' = Put(messages, seq', m)
                    /\ emitted' = << m >>
               ELSE /\ emitted' = << >>
                    /\ UNCHANGED << messages, seq, noForwarding >>
            /\ outcome' = [outcome EXCEPT ![m] = "pending"]
            /\ pc' = [pc EXCEPT ![m] = IF withProm THEN "waitProm" ELSE "queued"]
    /\ UNCHANGED << subscribed, sending, failed, cancelled, issued,
                    maxSeq, maxDel >>
    /\ UNCHANGED delVars
    /\ UNCHANGED regVars
    /\ UNCHANGED ctlVars

\* The onFulfilled callback of publishDraft.
OnFulfilled(m) ==
    /\ IF IsCancelled(m)
       THEN /\ outcome' = [outcome EXCEPT ![m] = "cancelled"]
            /\ pc' = [pc EXCEPT ![m] = "cancelled"]
            /\ UNCHANGED << sending, failed >>
       ELSE PublishMessageBody(m)
    /\ emitted' = << >>
    /\ UNCHANGED << subscribed, messages, seq, cancelled, noForwarding,
                    maxSeq, maxDel, calls, issued >>
    /\ UNCHANGED delVars
    /\ UNCHANGED regVars
    /\ UNCHANGED ctlVars

\* publishDraft without prom: Promise.resolve().then(...) runs the callback.
SendQueued(m) ==
    /\ pc[m] = "queued"
    /\ OnFulfilled(m)

\* The caller's precondition resolves.
PromResolve(m) ==
    /\ pc[m] = "waitProm"
    /\ OnFulfilled(m)

\* The caller's precondition rejects: the onRejected callback of publishDraft.
PromReject(m) ==
    /\ pc[m] = "waitProm"
    /\ sending' = [sending EXCEPT ![m] = FALSE]
    /\ failed' = [failed EXCEPT ![m] = TRUE]
    /\ messages' = DelAt(messages, Find(messages, seq, seq[m]))
    /\ emitted' = << NoMsg >>
    /\ outcome' = [outcome EXCEPT ![m] = "resolvedUndefined"]
    /\ pc' = [pc EXCEPT ![m] = "discarded"]
    /\ UNCHANGED << subscribed, seq, cancelled, noForwarding, maxSeq, maxDel,
                    calls, issued >>
    /\ UNCHANGED delVars
    /\ UNCHANGED regVars
    /\ UNCHANGED ctlVars

\* The Session confirms the publish: the try block after the await.
PublishConfirm(m, s) ==
    /\ pc[m] = "sending"
    /\ s \in ConfirmedIds \ issued
    /\ issued' = issued \cup {s}
    /\ sending' = [sending EXCEPT ![m] = FALSE]
    /\ seq' = SwapMessageId(seq, m, s)
    /\ maxSeq' = RouteData(maxSeq, s)
    /\ outcome' = [outcome EXCEPT ![m] = "ack"]
    /\ pc' = [pc EXCEPT ![m] = "confirmed"]
    /\ emitted' = << >>
    /\ UNCHANGED << subscribed, messages, failed, cancelled, noForwarding,
                    maxDel, calls >>
    /\ UNCHANGED delVars
    /\ UNCHANGED regVars
    /\ UNCHANGED ctlVars

\* The Session rejects the publish: the catch block.
PublishReject(m) ==
    /\ pc[m] = "sending"
    /\ sending' = [sending EXCEPT ![m] = FALSE]
    /\ failed' = [failed EXCEPT ![m] = TRUE]
    /\ messages' = CacheOnReject(messages, seq, m)
    /\ emitted' = << NoMsg >>
    /\ outcome' = [outcome EXCEPT ![m] = "resolvedUndefined"]
    /\ pc' = [pc EXCEPT ![m] = "failed"]
    /\ UNCHANGED << subscribed, seq, cancelled, noForwarding, maxSeq, maxDel,
                    calls, issued >>
    /\ UNCHANGED delVars
    /\ UNCHANGED regVars
    /\ UNCHANGED ctlVars

\* The application marks a packet cancelled while its call is in progress.
Cancel(m) ==
    /\ pc[m] \in { "waitProm", "queued", "sending" }
    /\ ~cancelled[m]
    /\ cancelled' = [cancelled EXCEPT ![m] = TRUE]
    /\ emitted' = << >>
    /\ UNCHANGED << subscribed, messages, seq, sending, failed, noForwarding,
                    maxSeq, maxDel, pc, outcome, calls, issued >>
    /\ UNCHANGED delVars
    /\ UNCHANGED regVars
    /\ UNCHANGED ctlVars


\* ------------------------------------------------------------- deletion
\* DelRange {low, hi}; hi = 0 stands for an absent hi (both are falsy).
Ranges == { r \in [low : 0 .. MaxRangeId, hi : 0 .. (MaxRangeId + 1)] :
                r.hi = 0 \/ r.hi > r.low }

RECURSIVE SeqsUpTo(_, _)
SeqsUpTo(S, n) ==
    IF n = 0 THEN { << >> }
    ELSE LET shorter == SeqsUpTo(S, n - 1)
         IN  shorter \cup { Append(q, x) : q \in shorter, x \in S }

\* The lists of ranges a caller passes to delMessages: at least one range,
\* no range twice.
RangeLists ==
    { rs \in SeqsUpTo(Ranges, MaxRanges) :
        /\ rs # << >>
        /\ \A i, j \in 1 .. Len(rs) : i # j => rs[i] # rs[j] }

\* The comparator passed to ranges.sort in delMessages.
RangeCmp(r1, r2) ==
    IF r1.low < r2.low THEN 1
    ELSE IF r1.low = r2.low
         THEN (IF r2.hi = 0 \/ r1.hi >= r2.hi THEN 1 ELSE -1)
         ELSE -1

\* Array.prototype.sort with that comparator: insertion of each element
\* before the first one it compares below.
InsertRange(sorted, r) ==
    LET below == { i \in 1 .. Len(sorted) : RangeCmp(r, sorted[i]) < 0 }
        at == IF below = {} THEN Len(sorted) + 1
              ELSE CHOOSE i \in below : \A j \in below : i <= j
    IN  SubSeq(sorted, 1, at - 1) \o << r >> \o SubSeq(sorted, at, Len(sorted))

RECURSIVE SortRanges(_)
SortRanges(rs) ==
    IF rs = << >> THEN << >>
    ELSE InsertRange(SortRanges(SubSeq(rs, 1, Len(rs) - 1)), rs[Len(rs)])

\* The reduce of delMessages: the ranges handed to the Session.
RECURSIVE ToSend(_, _)
ToSend(rs, mx) ==
    IF rs = << >> THEN << >>
    ELSE LET out == ToSend(SubSeq(rs, 1, Len(rs) - 1), mx)
             r == rs[Len(rs)]
         IN  IF r.low < LOCAL_SEQ_ID
             THEN IF r.hi = 0 \/ r.hi < LOCAL_SEQ_ID
                  THEN Append(out, r)
                  ELSE Append(out, [low |-> r.low, hi |-> mx + 1])
             ELSE out

\* Topic.flushMessageRange(low, hi): drop the entries with low <= seq < hi.
FlushMessageRange(buf, s, low, hi) ==
    SelectSeq(buf, LAMBDA m : ~(low <= s[m] /\ s[m] < hi))

\* Topic.flushMessage(seq): drop the entry with that seq.
FlushMessage(buf, s, v) == DelAt(buf, Find(buf, s, v))

\* The ranges.forEach of the delMessages continuation.
RECURSIVE FlushRanges(_, _, _)
FlushRanges(buf, s, rs) ==
    IF rs = << >> THEN buf
    ELSE LET r == Head(rs)
             b == IF r.hi # 0 THEN FlushMessageRange(buf, s, r.low, r.hi)
                  ELSE FlushMessage(buf, s, r.low)
         IN  FlushRanges(b, s, Tail(rs))

\* Variant of CacheOnDelReject: the ranges are flushed whatever the Session said.
CacheOnDelRejectFlushes(buf, s, rs) == FlushRanges(buf, s, rs)

\* The cache when the delMessages promise rejects: the continuation is skipped.
CacheOnDelReject(buf, s, rs) == buf

\* The body of delMessages(ranges, hard) up to the request to the Session.
DelMessagesCall(ranges) ==
    /\ delPc = "idle"
    /\ IF ~subscribed
       THEN /\ delOutcome' = "rejectedInactive"
            /\ UNCHANGED << delPc, delRanges, delSent >>
       ELSE /\ delRanges' = SortRanges(ranges)
            /\ delSent' = ToSend(delRanges', maxSeq)
            /\ delPc' = IF Len(delSent') > 0 THEN "inflight" ELSE "local"
            /\ delOutcome' = "pending"
    /\ delId' = 0
    /\ emitted' = << >>
    /\ UNCHANGED << subscribed, messages, maxSeq, maxDel >>
    /\ UNCHANGED pubVars
    /\ UNCHANGED regVars
    /\ UNCHANGED ctlVars

\* Topic.delMessages(ranges, hard), the synchronous part.
DelMessages(ranges) ==
    /\ DelMessagesCall(ranges)
    /\ delList' = << >>

\* The lists of ids a caller passes to delMessagesList.
IdLists == SeqsUpTo(1 .. MaxRangeId, MaxListLen) \ { << >> }

\* The reduce of delMessagesList: ids to ranges. The branch that would
\* expand the previous range is commented out in the source and does nothing.
RECURSIVE ListToRanges(_)
ListToRanges(list) ==
    IF list = << >> THEN << >>
    ELSE LET out == ListToRanges(SubSeq(list, 1, Len(list) - 1))
             id == list[Len(list)]
         IN  IF Len(out) = 0
             THEN << [low |-> id, hi |-> 0] >>
             ELSE LET prev == out[Len(out)]
                  IN  IF \/ (prev.hi = 0 /\ id # prev.low + 1)
                         \/ (prev.hi # 0 /\ id > prev.hi)
                      THEN Append(out, [low |-> id, hi |-> 0])
                      ELSE out

\* Topic.delMessagesList(list, hard): convert, then delMessages(ranges, hard).
DelMessagesList(list) ==
    /\ DelMessagesCall(ListToRanges(list))
    /\ delList' = IF subscribed THEN list ELSE << >>

\* Variant of NewMaxDel: the returned deletion id is stored as it comes.
NewMaxDelAssigned(cur, d) == d

\* if (ctrl.params.del > this.maxDel) { this.maxDel = ctrl.params.del; }
NewMaxDel(cur, d) == IF d > cur THEN d ELSE cur

\* The continuation result.then((ctrl) => ...) with ctrl.params.del = d.
DelThen(d) ==
    /\ maxDel' = NewMaxDel(maxDel, d)
    /\ messages' = FlushRanges(messages, seq, delRanges)
    /\ emitted' = << NoMsg >>
    /\ delOutcome' = "ok"
    /\ delId' = d
    /\ delPc' = "idle"
    /\ delRanges' = << >>
    /\ delSent' = << >>
    /\ delList' = << >>
    /\ UNCHANGED << subscribed, maxSeq >>
    /\ UNCHANGED pubVars
    /\ UNCHANGED regVars
    /\ UNCHANGED ctlVars

\* The Session confirms the delete with deletion id d.
DelConfirm(d) ==
    /\ delPc = "inflight"
    /\ DelThen(d)

\* Nothing was sent: Promise.resolve({params: {del: 0}}) runs the continuation.
DelLocal ==
    /\ delPc = "local"
    /\ DelThen(0)

\* The Session rejects the delete: the promise returned to the caller rejects.
DelReject ==
    /\ delPc = "inflight"
    /\ messages' = CacheOnDelReject(messages, seq, delRanges)
    /\ delOutcome' = "rejectedError"
    /\ delPc' = "idle"
    /\ delRanges' = << >>
    /\ delSent' = << >>
    /\ delList' = << >>
    /\ emitted' = << >>
    /\ UNCHANGED << subscribed, maxSeq, maxDel, delId >>
    /\ UNCHANGED pubVars
    /\ UNCHANGED regVars
    /\ UNCHANGED ctlVars

\* ------------------------------------------------- subscriber registry
\* Topic.processMetaSub: a record for user u arrives; a new record carries
\* no watermark yet.
ProcessMetaSub(u) ==
    /\ u \notin users
    /\ users' = users \cup { u }
    /\ recv' = [recv EXCEPT ![u] = 0]
    /\ read' = [read EXCEPT ![u] = 0]
    /\ emitted' = << >>
    /\ UNCHANGED << subscribed, messages, maxSeq, maxDel >>
    /\ UNCHANGED << noteCalls, noteSent, noteResult >>
    /\ UNCHANGED pubVars
    /\ UNCHANGED delVars
    /\ UNCHANGED ctlVars

\* Variant of NoteGoesOut: the notification goes out on an inactive topic too.
NoteGoesOutAlways(sub) == TRUE

\* if (this.subscribed) { this.tinode.note(...) } else { logger(...) }
NoteGoesOut(sub) == sub

\* if (!user[what] || user[what] < seq)
NoteAdvances(stored, s) == stored = 0 \/ stored < s

\* The watermark what ("recv" or "read") stored for user u.
Watermark(what, u) == IF what = "recv" THEN recv[u] ELSE read[u]

\* Topic.note(what, seq). The update of the "me" topic that ends the method
\* changes nothing of this topic. The method returns nothing and throws
\* nothing, whichever branch it took.
Note(what, s) ==
    /\ noteCalls < MaxNotes
    /\ noteCalls' = noteCalls + 1
    /\ IF CurrentUser \in users
       THEN IF NoteAdvances(Watermark(what, CurrentUser), s)
            THEN /\ noteSent' = IF NoteGoesOut(subscribed)
                                THEN noteSent + 1 ELSE noteSent
                 /\ recv' = IF what = "recv"
                            THEN [recv EXCEPT ![CurrentUser] = s] ELSE recv
                 /\ read' = IF what = "read"
                            THEN [read EXCEPT ![CurrentUser] = s] ELSE read
            ELSE UNCHANGED << noteSent, recv, read >>
       ELSE UNCHANGED << noteSent, recv, read >>
    /\ noteResult' = "returned"
    /\ emitted' = << >>
    /\ UNCHANGED users
    /\ UNCHANGED << subscribed, messages, maxSeq, maxDel >>
    /\ UNCHANGED pubVars
    /\ UNCHANGED delVars
    /\ UNCHANGED ctlVars

\* ------------------------------------------- leave and delSubscription
\* Variant of Leave: the request goes out whatever the state of the topic.
LeaveUnchecked(unsub) ==
    /\ leavePc = "idle"
    /\ leavePc' = IF unsub THEN "unsub" ELSE "leave"
    /\ leaveOutcome' = "pending"
    /\ emitted' = << >>
    /\ UNCHANGED << subscribed, messages, maxSeq, maxDel, subPc, subOutcome >>
    /\ UNCHANGED pubVars
    /\ UNCHANGED delVars
    /\ UNCHANGED regVars

\* Topic.leave(unsub) up to the request to the Session.
Leave(unsub) ==
    /\ leavePc = "idle"
    /\ IF ~subscribed /\ ~unsub
       THEN /\ leaveOutcome' = "rejectedInactive"
            /\ UNCHANGED leavePc
       ELSE /\ leavePc' = IF unsub THEN "unsub" ELSE "leave"
            /\ leaveOutcome' = "pending"
    /\ emitted' = << >>
    /\ UNCHANGED << subscribed, messages, maxSeq, maxDel, subPc, subOutcome >>
    /\ UNCHANGED pubVars
    /\ UNCHANGED delVars
    /\ UNCHANGED regVars

\* Topic.gone(): the topic is torn down, the cache is cleared and the
\* counters are reset.
GoneCache(buf) == << >>
GoneCounter(c) == c - c

\* The Session confirms the leave: resetSub(), and gone() after an unsubscribe.
LeaveConfirm ==
    /\ leavePc \in { "leave", "unsub" }
    /\ subscribed' = FALSE
    /\ IF leavePc = "unsub"
       THEN /\ messages' = GoneCache(messages)
            /\ maxSeq' = GoneCounter(maxSeq)
            /\ maxDel' = GoneCounter(maxDel)
       ELSE UNCHANGED << messages, maxSeq, maxDel >>
    /\ leavePc' = "idle"
    /\ leaveOutcome' = "ok"
    /\ emitted' = << >>
    /\ UNCHANGED << subPc, subOutcome >>
    /\ UNCHANGED pubVars
    /\ UNCHANGED delVars
    /\ UNCHANGED regVars

\* Variant of LeaveReject: the subscription is reset although the Session
\* refused the request.
LeaveRejectResets ==
    /\ leavePc \in { "leave", "unsub" }
    /\ subscribed' = FALSE
    /\ leavePc' = "idle"
    /\ leaveOutcome' = "rejectedError"
    /\ emitted' = << >>
    /\ UNCHANGED << messages, maxSeq, maxDel, subPc, subOutcome >>
    /\ UNCHANGED pubVars
    /\ UNCHANGED delVars
    /\ UNCHANGED regVars

\* The Session rejects the leave: the await throws, nothing after it runs.
LeaveReject ==
    /\ leavePc \in { "leave", "unsub" }
    /\ leavePc' = "idle"
    /\ leaveOutcome' = "rejectedError"
    /\ emitted' = << >>
    /\ UNCHANGED << subscribed, messages, maxSeq, maxDel, subPc, subOutcome >>
    /\ UNCHANGED pubVars
    /\ UNCHANGED delVars
    /\ UNCHANGED regVars

\* Topic.delTopic(hard) up to the request to the Session; the method has no
\* test of this.subscribed. One leave or delTopic call is in progress at a time.
DelTopic ==
    /\ leavePc = "idle"
    /\ leavePc' = "delTopic"
    /\ leaveOutcome' = "pending"
    /\ emitted' = << >>
    /\ UNCHANGED << subscribed, messages, maxSeq, maxDel, subPc, subOutcome >>
    /\ UNCHANGED pubVars
    /\ UNCHANGED delVars
    /\ UNCHANGED regVars

\* The Session confirms the delTopic: resetSub(), then gone().
DelTopicConfirm ==
    /\ leavePc = "delTopic"
    /\ subscribed' = FALSE
    /\ messages' = GoneCache(messages)
    /\ maxSeq' = GoneCounter(maxSeq)
    /\ maxDel' = GoneCounter(maxDel)
    /\ leavePc' = "idle"
    /\ leaveOutcome' = "ok"
    /\ emitted' = << >>
    /\ UNCHANGED << subPc, subOutcome >>
    /\ UNCHANGED pubVars
    /\ UNCHANGED delVars
    /\ UNCHANGED regVars

\* The Session rejects the delTopic: the await throws, nothing after it runs.
DelTopicReject ==
    /\ leavePc = "delTopic"
    /\ leavePc' = "idle"
    /\ leaveOutcome' = "rejectedError"
    /\ emitted' = << >>
    /\ UNCHANGED << subscribed, messages, maxSeq, maxDel, subPc, subOutcome >>
    /\ UNCHANGED pubVars
    /\ UNCHANGED delVars
    /\ UNCHANGED regVars

\* Topic.delSubscription(user) up to the request to the Session.
DelSubscription(u) ==
    /\ subPc = "idle"
    /\ IF ~subscribed
       THEN /\ subOutcome' = "rejectedInactive"
            /\ UNCHANGED subPc
       ELSE /\ subPc' = u
            /\ subOutcome' = "pending"
    /\ emitted' = << >>
    /\ UNCHANGED << subscribed, messages, maxSeq, maxDel, leavePc, leaveOutcome >>
    /\ UNCHANGED pubVars
    /\ UNCHANGED delVars
    /\ UNCHANGED regVars

\* The Session confirms: delete this.users[user].
DelSubConfirm ==
    /\ subPc # "idle"
    /\ users' = users \ { subPc }
    /\ recv' = [recv EXCEPT ![subPc] = 0]
    /\ read' = [read EXCEPT ![subPc] = 0]
    /\ subPc' = "idle"
    /\ subOutcome' = "ok"
    /\ emitted' = << >>
    /\ UNCHANGED << subscribed, messages, maxSeq, maxDel, leavePc, leaveOutcome >>
    /\ UNCHANGED << noteCalls, noteSent, noteResult >>
    /\ UNCHANGED pubVars
    /\ UNCHANGED delVars

\* The Session rejects: the await throws, the record stays.
DelSubReject ==
    /\ subPc # "idle"
    /\ subPc' = "idle"
    /\ subOutcome' = "rejectedError"
    /\ emitted' = << >>
    /\ UNCHANGED << subscribed, messages, maxSeq, maxDel, leavePc, leaveOutcome >>
    /\ UNCHANGED pubVars
    /\ UNCHANGED delVars
    /\ UNCHANGED regVars

\* ------------------------------------------------------- specification
\* The publish pipeline.
Next ==
    \/ Subscribe
    \/ ResetSub
    \/ \E m \in Msgs : PublishMessage(m)
    \/ \E m \in Msgs, withProm \in BOOLEAN : PublishDraft(m, withProm)
    \/ \E m \in Msgs : SendQueued(m)
    \/ \E m \in Msgs : PromResolve(m)
    \/ \E m \in Msgs : PromReject(m)
    \/ \E m \in Msgs, s \in ConfirmedIds : PublishConfirm(m, s)
    \/ \E m \in Msgs : PublishReject(m)
    \/ \E m \in Msgs : Cancel(m)

Spec == Init /\ [][Next]_vars

\* Deletion, over a cache filled by drafts that are sent at once and confirmed.
NextDel ==
    \/ Subscribe
    \/ \E m \in Msgs : PublishDraft(m, FALSE)
    \/ \E m \in Msgs : SendQueued(m)
    \/ \E m \in Msgs, s \in ConfirmedIds : PublishConfirm(m, s)
    \/ \E ranges \in RangeLists : DelMessages(ranges)
    \/ \E d \in 0 .. MaxDelId : DelConfirm(d)
    \/ DelLocal
    \/ DelReject

SpecDel == Init /\ [][NextDel]_vars

\* Deletion by a list of ids.
NextList ==
    \/ Subscribe
    \/ \E list \in IdLists : DelMessagesList(list)
    \/ \E d \in 0 .. MaxDelId : DelConfirm(d)
    \/ DelLocal
    \/ DelReject

SpecList == Init /\ [][NextList]_vars

\* The watermarks of the subscriber registry.
NextNote ==
    \/ Subscribe
    \/ ResetSub
    \/ \E u \in Users : ProcessMetaSub(u)
    \/ \E what \in { "recv", "read" }, s \in 0 .. MaxNoteSeq : Note(what, s)

SpecNote == Init /\ [][NextNote]_vars

\* The deletes of a single id that the calls below pass to delMessages: one
\* confirmed id, which goes to the Session, and one at LOCAL_SEQ_ID, which
\* does not.
SingleIdLists == { << [low |-> v, hi |-> 0] >> : v \in { 1, LOCAL_SEQ_ID } }

\* The calls that need a live topic, made on a topic that is subscribed and
\* left again, over one packet, one subscriber record and deletes of a
\* single id.
NextCalls ==
    \/ Subscribe
    \/ PublishMessage(1)
    \/ PublishDraft(1, FALSE)
    \/ SendQueued(1)
    \/ \E s \in ConfirmedIds : PublishConfirm(1, s)
    \/ PublishReject(1)
    \/ \E ranges \in SingleIdLists : DelMessages(ranges)
    \/ \E d \in 0 .. MaxDelId : DelConfirm(d)
    \/ DelLocal
    \/ DelReject
    \/ ProcessMetaSub(CurrentUser)
    \/ DelSubscription(CurrentUser)
    \/ DelSubConfirm
    \/ DelSubReject
    \/ \E unsub \in BOOLEAN : Leave(unsub)
    \/ LeaveConfirm
    \/ LeaveReject

SpecCalls == Init /\ [][NextCalls]_vars

\* The calls that end a subscription, over a cache filled by one packet and a
\* registry of two users.
NextLeave ==
    \/ Subscribe
    \/ PublishDraft(1, FALSE)
    \/ SendQueued(1)
    \/ \E s \in ConfirmedIds : PublishConfirm(1, s)
    \/ \E u \in Users : ProcessMetaSub(u)
    \/ \E u \in Users : DelSubscription(u)
    \/ DelSubConfirm
    \/ DelSubReject
    \/ \E unsub \in BOOLEAN : Leave(unsub)
    \/ LeaveConfirm
    \/ LeaveReject
    \/ DelTopic
    \/ DelTopicConfirm
    \/ DelTopicReject

SpecLeave == Init /\ [][NextLeave]_vars


\* --------------------------------------------------------------- claims
\* The entry of packet m sits where its seq demands: smaller seqs before it,
\* larger seqs after it.
PlacedBySeq(buf, s, m) ==
    \A i, j \in 1 .. Len(buf) :
        buf[i] = m => /\ (j < i => s[buf[j]] < s[m])
                      /\ (j > i => s[buf[j]] > s[m])

\* A packet whose seq was assigned locally and not yet replaced by the Session.
Provisional(m) == noForwarding[m] /\ seq[m] \notin issued

\* C1: the message cache is sorted strictly ascending by seq, hence holds at
\* most one entry per seq, after any sequence of draft insertions, publish
\* confirmations and deletions.
C1_CacheSortedBySeq ==
    \A i, j \in 1 .. Len(messages) :
        i < j => seq[messages[i]] < seq[messages[j]]

\* C2: when the Session confirms a publish, the packet's seq becomes the
\* confirmed seq, its cache entry sits at the position the new seq demands,
\* sending is cleared and the caller receives the acknowledgement.
C2_ConfirmRepositions ==
    [][\A m \in Msgs :
          (pc[m] = "sending" /\ pc'[m] = "confirmed") =>
              /\ seq'[m] \in ConfirmedIds
              /\ PlacedBySeq(messages', seq', m)
              /\ ~sending'[m]
              /\ outcome'[m] = "ack"]_vars

\* C3: the provisional identifiers of two different packets differ, and no
\* provisional identifier is a confirmed (>= 1) identifier.
C3_ProvisionalIdsFresh ==
    \A m1, m2 \in Msgs :
        (Provisional(m1) /\ Provisional(m2) /\ m1 # m2) =>
            /\ seq[m1] # seq[m2]
            /\ seq[m1] < 1

\* C4: publishDraft on a fresh draft puts the entry in the cache and emits a
\* data-changed event carrying it within the call, before any publish
\* request for it is issued.
C4_OptimisticEcho ==
    [][\A m \in Msgs :
          (pc[m] \in Settled /\ ~noForwarding[m]
                /\ pc'[m] \in { "waitProm", "queued" }) =>
              /\ InCache(messages', m)
              /\ emitted' = << m >>
              /\ ~sending'[m]]_vars

\* C5: a queued draft that is marked cancelled when its send step runs gets
\* the synthesized 'cancelled' result, and no publish request is issued.
C5_CancelledNeverSent ==
    [][\A m \in Msgs :
          (pc[m] \in { "waitProm", "queued" } /\ cancelled[m]
                /\ pc'[m] \notin { "waitProm", "queued", "discarded" }) =>
              /\ pc'[m] = "cancelled"
              /\ outcome'[m] = "cancelled"
              /\ ~sending'[m]]_vars

C5_Witness ==
    \E m \in Msgs :
        pc[m] = "cancelled" /\ outcome[m] = "cancelled" /\ InCache(messages, m)

\* C6: when the precondition of publishDraft fails the packet is flagged
\* failed, its entry leaves the cache, no other entry leaves it, a
\* data-changed event fires and no publish request is issued.
C6_PreconditionFailureDiscards ==
    [][\A m \in Msgs :
          (pc[m] = "waitProm" /\ pc'[m] = "discarded") =>
              /\ ~InCache(messages', m)
              /\ \A k \in Msgs \ {m} :
                    InCache(messages, k) => InCache(messages', k)
              /\ Len(emitted') > 0
              /\ failed'[m]
              /\ ~sending'[m]]_vars

\* C7: when the Session rejects a publish, sending is cleared, failed is
\* set, and no cache entry is removed or renumbered.
C7_RejectionKeepsEntry ==
    [][\A m \in Msgs :
          (pc[m] = "sending" /\ pc'[m] = "failed") =>
              /\ messages' = messages
              /\ seq' = seq
              /\ ~sending'[m]
              /\ failed'[m]]_vars

C7_Witness ==
    \E m \in Msgs :
        /\ pc[m] = "failed"
        /\ InCache(messages, m)
        /\ failed[m]
        /\ ~sending[m]
        /\ Provisional(m)

\* C8: when the Session rejects a publish, the promise returned to the
\* caller rejects with the error.
C8_RejectionReported ==
    \A m \in Msgs : pc[m] = "failed" => outcome[m] = "rejectedError"

\* The identifiers a range covers, an absent hi read as "up to mx + 1".
Cover(r, mx) ==
    IF r.hi = 0 THEN r.low .. mx ELSE r.low .. (r.hi - 1)

\* No entry of the cache lies in a range of rs (an absent hi: the one id low).
Flushed(buf, s, rs) ==
    \A i \in 1 .. Len(buf), k \in 1 .. Len(rs) :
        IF rs[k].hi = 0 THEN s[buf[i]] # rs[k].low
        ELSE ~(rs[k].low <= s[buf[i]] /\ s[buf[i]] < rs[k].hi)

\* C9: a delMessages call ends in one of two ways: the Session rejected it,
\* and then the cache, the packets' seqs and maxDel are unchanged, no
\* data-changed event is emitted and the caller gets the error; or it
\* succeeded, and then every one of its ranges is flushed.
C9_DeleteAllOrNothing ==
    [][(delPc \in { "inflight", "local" } /\ delPc' = "idle") =>
          \/ /\ delOutcome' = "rejectedError"
             /\ messages' = messages
             /\ seq' = seq
             /\ maxDel' = maxDel
             /\ emitted' = << >>
          \/ /\ delOutcome' = "ok"
             /\ Flushed(messages', seq', delRanges)]_vars

C9_Witness ==
    /\ delOutcome = "rejectedError"
    /\ delPc = "idle"
    /\ Len(messages) = NumMsgs

\* C10: for input ranges in confirmed space, the ranges sent to the Session
\* are pairwise non-overlapping and cover exactly what the input covers.
C10_SentRangesCoalesced ==
    (/\ delPc = "inflight"
     /\ \A k \in 1 .. Len(delRanges) :
            /\ 1 <= delRanges[k].low
            /\ delRanges[k].low < LOCAL_SEQ_ID
            /\ delRanges[k].hi < LOCAL_SEQ_ID) =>
        /\ \A i, j \in 1 .. Len(delSent) :
              i # j => Cover(delSent[i], maxSeq) \cap Cover(delSent[j], maxSeq) = {}
        /\ UNION { Cover(delSent[k], maxSeq) : k \in 1 .. Len(delSent) }
              = UNION { Cover(delRanges[k], maxSeq) : k \in 1 .. Len(delRanges) }


\* The ids a range handed to the Session names: low alone, or low .. hi - 1.
SentIds(r) == IF r.hi = 0 THEN { r.low } ELSE r.low .. (r.hi - 1)

\* C11: a delMessages call whose ranges all lie at or above LOCAL_SEQ_ID
\* issues no request to the Session, and no range handed to the Session
\* names the seq of a cached message that the Session has not acknowledged.
C11_ProvisionalNeverSent ==
    delPc \in { "inflight", "local" } =>
        /\ (\A k \in 1 .. Len(delRanges) : delRanges[k].low >= LOCAL_SEQ_ID)
               => delPc = "local"
        /\ \A m \in Msgs :
               (InCache(messages, m) /\ Provisional(m)) =>
                   \A k \in 1 .. Len(delSent) : seq[m] \notin SentIds(delSent[k])

\* C16: maxDel never decreases; a delMessages call that the Session confirmed
\* with deletion id d leaves it at the larger of its old value and d, and a
\* call that sent nothing to the Session leaves it as it was.
C16_MaxDelMonotone ==
    [][ /\ maxDel' >= maxDel
        /\ (delPc = "inflight" /\ delPc' = "idle" /\ delOutcome' = "ok") =>
               maxDel' = (IF delId' > maxDel THEN delId' ELSE maxDel)
        /\ (delPc = "local" /\ delPc' = "idle") =>
               (delOutcome' = "ok" /\ maxDel' = maxDel)
        /\ (delPc = "idle" \/ delOutcome' # "ok") => maxDel' = maxDel ]_vars

\* A confirmed delete came back with a deletion id below maxDel.
C16_Witness ==
    /\ delOutcome = "ok"
    /\ maxDel = MaxDelId
    /\ delId < maxDel

\* C19: every range handed to the Session starts below LOCAL_SEQ_ID and, when
\* it carries a hi, that hi is no greater than maxSeq + 1.
C19_SentRangesClipped ==
    delPc = "inflight" =>
        \A k \in 1 .. Len(delSent) :
            /\ delSent[k].low < LOCAL_SEQ_ID
            /\ delSent[k].hi # 0 => delSent[k].hi <= maxSeq + 1

\* The ids of a list, and the ids the ranges of a delMessages call name.
ListIds(list) == { list[i] : i \in 1 .. Len(list) }
RangeIds(rs) == UNION { SentIds(rs[k]) : k \in 1 .. Len(rs) }

\* C20: the ranges that delMessagesList passes to delMessages name exactly
\* the ids of the list.
C20_ListCoveredExactly ==
    (delPc \in { "inflight", "local" } /\ delList # << >>) =>
        RangeIds(delRanges) = ListIds(delList)

\* C12: over note calls no stored watermark decreases, and a call that leaves
\* both watermarks as they were hands no notification to the Session.
C12_WatermarkMonotone ==
    [][ noteCalls' # noteCalls =>
            /\ \A u \in Users : recv'[u] >= recv[u] /\ read'[u] >= read[u]
            /\ (recv' = recv /\ read' = read) => noteSent' = noteSent ]_vars

\* A note call of this step raised a watermark of the current user.
NoteAdvanced ==
    /\ noteCalls' # noteCalls
    /\ \/ recv'[CurrentUser] > recv[CurrentUser]
       \/ read'[CurrentUser] > read[CurrentUser]

\* C13: a note call that raises a watermark on an inactive topic sends nothing,
\* one that raises it on a subscribed topic sends exactly one notification,
\* and no step other than a note call sends one (nothing is kept for later).
C13_InactiveNoteNotSent ==
    [][ /\ (NoteAdvanced /\ ~subscribed) => noteSent' = noteSent
        /\ (NoteAdvanced /\ subscribed) => noteSent' = noteSent + 1
        /\ noteCalls' = noteCalls => noteSent' = noteSent ]_vars

\* A watermark was raised while the topic was inactive, and the topic has
\* become subscribed since.
C13_Witness ==
    /\ subscribed
    /\ recv[CurrentUser] > 0
    /\ noteCalls > 0
    /\ noteSent = 0

\* C14: a note call made while the registry has no record for the current
\* user ends with an error for the caller, sends nothing and adds no record.
C14_MissingUserReported ==
    (noteCalls > 0 /\ CurrentUser \notin users) =>
        /\ noteResult = "error"
        /\ noteSent = 0

\* What a call that fails on an inactive topic must leave alone: the cache,
\* the counters, the subscriber registry and every message flag.
InactiveFrame ==
    UNCHANGED << messages, seq, sending, failed, cancelled, noForwarding,
                 maxSeq, maxDel, issued, users, recv, read >>

\* No step of a failing call hands a request to the Session.
NoRequest ==
    /\ \A m \in Msgs : pc'[m] = "sending" => pc[m] = "sending"
    /\ delPc' = delPc
    /\ subPc' = subPc
    /\ leavePc' = leavePc

\* C15: on a topic that is not subscribed, publishMessage, publishDraft without
\* a precondition, delMessages, delSubscription and leave(false) end with the
\* inactive-topic error, send nothing to the Session and change neither the
\* cache, the counters, the registry nor a message flag.
C15_InactiveCallsFail ==
    [][ ~subscribed =>
          /\ calls' # calls =>
                /\ \E m \in Msgs :
                      /\ pc' = [pc EXCEPT ![m] = "inactive"]
                      /\ outcome' = [outcome EXCEPT ![m] = "rejectedInactive"]
                /\ InactiveFrame
                /\ NoRequest
          /\ (delPc = "idle" /\ delVars' # delVars) =>
                /\ delOutcome' = "rejectedInactive"
                /\ delSent' = << >>
                /\ InactiveFrame
                /\ NoRequest
          /\ (subPc = "idle" /\ << subPc, subOutcome >>' # << subPc, subOutcome >>) =>
                /\ subOutcome' = "rejectedInactive"
                /\ InactiveFrame
                /\ NoRequest
          /\ (leavePc = "idle" /\ leavePc' # "unsub"
                /\ << leavePc, leaveOutcome >>' # << leavePc, leaveOutcome >>) =>
                /\ leaveOutcome' = "rejectedInactive"
                /\ InactiveFrame
                /\ NoRequest ]_vars

\* Every one of the calls has failed on an inactive topic that holds a message.
C15_Witness ==
    /\ ~subscribed
    /\ messages # << >>
    /\ \E m \in Msgs : outcome[m] = "rejectedInactive"
    /\ delOutcome = "rejectedInactive"
    /\ subOutcome = "rejectedInactive"
    /\ leaveOutcome = "rejectedInactive"
\* C17: when a message that publishDraft accepted reaches the end of its call,
\* its sending flag is false and, unless it ended confirmed or cancelled, it
\* is flagged failed or is no longer in the cache.
C17_TerminalStateFlagged ==
    [][ \A m \in Msgs :
          (/\ noForwarding[m]
           /\ pc[m] \in { "waitProm", "queued", "sending" }
           /\ pc'[m] \in Settled) =>
              /\ ~sending'[m]
              /\ pc'[m] \notin { "confirmed", "cancelled" } =>
                     (failed'[m] \/ ~InCache(messages', m)) ]_vars

\* The step settles packet m by a confirmation, a rejection or a cancellation.
SettlesByResponse(m) ==
    \/ pc[m] = "sending" /\ pc'[m] \in { "confirmed", "failed" }
    \/ pc[m] # "cancelled" /\ pc'[m] = "cancelled"

\* C18: the confirmation, rejection or cancellation of one message changes
\* neither the flags, the seq, the cache membership nor the call state of
\* any other message.
C18_OutcomesIndependent ==
    [][ \A m \in Msgs : SettlesByResponse(m) =>
          \A k \in Msgs \ { m } :
              /\ seq'[k] = seq[k]
              /\ sending'[k] = sending[k]
              /\ failed'[k] = failed[k]
              /\ cancelled'[k] = cancelled[k]
              /\ noForwarding'[k] = noForwarding[k]
              /\ InCache(messages', k) = InCache(messages, k)
              /\ pc'[k] = pc[k]
              /\ outcome'[k] = outcome[k] ]_vars

\* Packet 2 was drafted while packet 1 was cached and unacknowledged (its
\* insert was refused for that reason), and packet 1 has been confirmed while
\* the call on packet 2 is still with the Session.
C18_Witness ==
    /\ calls = 2
    /\ pc[1] = "confirmed"
    /\ InCache(messages, 1)
    /\ pc[2] = "sending"
    /\ noForwarding[2]
    /\ ~InCache(messages, 2)

\* The cache slots that hold packet m.
Slots(buf, m) == { i \in 1 .. Len(buf) : buf[i] = m }

\* C21: a publishDraft call accepted for a packet that an earlier call has
\* already cached leaves the cache and every seq as they were and emits no
\* onData event; after every step a packet holds at most one cache slot.
C21_RedraftInsertsNothing ==
    [][ /\ \A m \in Msgs :
              (/\ noForwarding[m]
               /\ pc[m] \in Settled
               /\ pc'[m] \in { "waitProm", "queued" }) =>
                  /\ messages' = messages
                  /\ seq' = seq
                  /\ emitted' = << >>
        /\ \A m \in Msgs : Cardinality(Slots(messages', m)) <= 1 ]_vars

\* A packet that the Session rejected is still cached, flagged failed, and
\* has been handed to publishDraft again.
C21_Witness ==
    \E m \in Msgs :
        /\ pc[m] \in { "waitProm", "queued" }
        /\ failed[m]
        /\ InCache(messages, m)

\* The cache, the counters and the subscriber registry stay as they were.
TopicStateKept ==
    UNCHANGED << messages, maxSeq, maxDel, users, recv, read >>

\* C22: leave and delTopic reset the subscription only in the step in which
\* the Session confirms them, and gone() runs only after an unsubscribe or a
\* delTopic; sending the request, or its rejection, changes neither the
\* subscribed state, the cache, the counters nor the registry. delSubscription
\* removes the record of the named user and no other, and only in the step in
\* which the Session confirms it.
C22_ResetOnlyAfterConfirm ==
    [][ /\ (leavePc = "idle" /\ leavePc' # "idle") =>
              (subscribed' = subscribed /\ TopicStateKept)
        /\ (leavePc # "idle" /\ leaveOutcome' = "rejectedError") =>
              (subscribed' = subscribed /\ TopicStateKept)
        /\ (leavePc # "idle" /\ leaveOutcome' = "ok") =>
              /\ ~subscribed'
              /\ UNCHANGED << users, recv, read >>
              /\ IF leavePc = "leave"
                 THEN UNCHANGED << messages, maxSeq, maxDel >>
                 ELSE messages' = << >> /\ maxSeq' = 0 /\ maxDel' = 0
        /\ (subscribed /\ ~subscribed') =>
              (leavePc # "idle" /\ leaveOutcome' = "ok")
        /\ (subPc = "idle" /\ subPc' # "idle") =>
              (subscribed' = subscribed /\ TopicStateKept)
        /\ (subPc # "idle" /\ subOutcome' = "rejectedError") =>
              (subscribed' = subscribed /\ TopicStateKept)
        /\ (subPc # "idle" /\ subOutcome' = "ok") =>
              /\ users' = users \ { subPc }
              /\ \A u \in Users \ { subPc } :
                     recv'[u] = recv[u] /\ read'[u] = read[u]
              /\ UNCHANGED << subscribed, messages, maxSeq, maxDel >>
        /\ \A u \in users \ users' : (subPc = u /\ subOutcome' = "ok") ]_vars

\* A leave or delTopic was refused and the topic is still subscribed with its
\* message, and a confirmed delSubscription took the record of the current
\* user and left the other one.
C22_Witness ==
    /\ subscribed
    /\ leaveOutcome = "rejectedError"
    /\ messages # << >>
    /\ maxSeq > 0
    /\ subOutcome = "ok"
    /\ users = Users \ { CurrentUser }
====
